---- MODULE Spec2Model ----
(***************************************************************************)
(* PodcastfyService (src/src/types/podcast.ts, lines 306-791): the job     *)
(* orchestrator that stages a config file, spawns a Python worker, relays  *)
(* the worker's JSON progress records to the StreamManager and cleans up   *)
(* on completion, error, process exit, cancellation and timeout.           *)
(*                                                                         *)
(* One "generation" is one call of generatePodcast: its config file, its   *)
(* child process, its timeout timer and the closures registered on the     *)
(* child.  Handlers run to completion (Node's event loop), so each handler *)
(* is one action; the only suspension point inside generatePodcast that    *)
(* lets other handlers in is the await of writeFile.                       *)
(***************************************************************************)
EXTENDS Integers, Sequences, FiniteSets, TLC

\* ------------------------------------------------------------------ bounds
MaxGens == 2        \* generatePodcast calls explored
MaxCount == 2       \* the count of terminal events saturates here ("two or more")
MaxLines == 3       \* lines in the output of the observed worker
MaxChunks == 2      \* chunks the pipe cuts that output into
MaxEvents == 3      \* events published to the observed session
MaxNow == 2         \* ticks of the clock ClaunchService reads
MaxAttempts == 1    \* the largest maxReconnectAttempts configured
MaxHandlers == 3    \* handlers registered for the executed hook type
MaxCalls == 2       \* start() and restart() calls that get as far as spawn

\* ------------------------------------------------------- program constants
TIMEOUT_MS == 30 * 60 * 1000    \* the delay of the timeout timer
GRACE_MS == 5000                \* the delay between SIGTERM and SIGKILL

\* Time is not measured: a timer is armed with its delay, and its callback is
\* an action that can be taken once it is armed, which stands for "the delay
\* has passed and the event loop has reached the callback".

\* Callers name two ids; generatePodcast is explored for one of them (any
\* number of times, also while it is active), the other is only ever an id
\* that was never started.
Ids == {"job-1", "job-2"}
StartIds == {"job-1"}
Gens == 1..MaxGens
NoGen == 0
Null == 0 - 1       \* the exit code of a process killed by a signal
ExitCodes == {0, 1, Null}

VARIABLES
    activeGenerations,  \* streamingId -> generation held by the Map (NoGen: no entry)
    gen,                \* generation -> its process, timers and config file
    terminals,          \* per id: terminal events broadcast since generatePodcast(id) was last
                        \* called, counted up to MaxCount
    out,                \* what the handler that ran last handed to the StreamManager
    ret,                \* what the handler that ran last returned
    worker,             \* the observed worker: all it writes to stdout, the chunks of
                        \* that still in the pipe, and its exit code once it has exited
    published,          \* everything handed to the StreamManager while a worker is observed
    sink,               \* the observed session of the StreamManager: its subscribers in
                        \* registration order and what each has received
    claunch,            \* the ClaunchService: its config, its Map of sessions, the
                        \* intervals that are set, the clock and what the last call emitted
    hooks,              \* the VoiceHookManager: the handlers of one hook type and the
                        \* progress of the execute call on it
    voice               \* the VoiceModeService: its flag, its process field, the child
                        \* processes it has spawned and its calls that are suspended

vars == <<activeGenerations, gen, terminals, out, ret, worker, published, sink,
          claunch, hooks, voice>>

\* --------------------------------------------------------------- messages
Undefined == "undefined"

\* PythonProgressMessage as JSON.parse returns it.  percent is <<>> when the
\* record has no percent field, <<p>> otherwise.
Msg(type, percent, error, code) ==
    [type |-> type, percent |-> percent, error |-> error, code |-> code]

SyntaxError == Msg("SyntaxError", <<>>, Undefined, Undefined)

\* The record bodies a worker writes, and the object each one parses to.
Bodies == {"progress10", "complete", "errorVALIDATION", "log"}

Decode(b) ==
    CASE b = "progress10"      -> Msg("progress", <<10>>, Undefined, Undefined)
      [] b = "progress0"       -> Msg("progress", <<0>>, Undefined, Undefined)
      [] b = "progress"        -> Msg("progress", <<>>, Undefined, Undefined)
      [] b = "complete"        -> Msg("complete", <<>>, Undefined, Undefined)
      [] b = "errorVALIDATION" -> Msg("error", <<>>, "bad input", "VALIDATION")
      [] b = "error"           -> Msg("error", <<>>, Undefined, Undefined)
      [] OTHER                 -> Msg(b, <<>>, Undefined, Undefined)

\* A record as the worker prints it: opening brace, body, closing brace, and
\* the newline that ends the line.
NL == "\n"
Line(b) == <<"{", b, "}", NL>>
IsSpace(c) == c = NL \/ c = " "

RECURSIVE TrimStart(_)
TrimStart(s) ==
    IF s # <<>> /\ IsSpace(Head(s)) THEN TrimStart(Tail(s)) ELSE s

RECURSIVE TrimEnd(_)
TrimEnd(s) ==
    IF s # <<>> /\ IsSpace(s[Len(s)]) THEN TrimEnd(SubSeq(s, 1, Len(s) - 1)) ELSE s

\* String.prototype.trim
Trim(s) == TrimEnd(TrimStart(s))

\* String.prototype.split('\n'): the pieces between newlines, empty ones kept
RECURSIVE SplitAcc(_, _, _)
SplitAcc(s, cur, acc) ==
    IF s = <<>> THEN Append(acc, cur)
    ELSE IF Head(s) = NL THEN SplitAcc(Tail(s), <<>>, Append(acc, cur))
    ELSE SplitAcc(Tail(s), Append(cur, Head(s)), acc)

Split(s) == SplitAcc(s, <<>>, <<>>)

\* JSON.parse of one line: the object, or SyntaxError when it throws
JSONparse(line) ==
    LET t == Trim(line) IN
    IF Len(t) = 3 /\ t[1] = "{" /\ t[3] = "}" /\ t[2] \notin {"{", "}", " "}
    THEN Decode(t[2])
    ELSE SyntaxError

\* The chunks a worker's stdout delivers here: one record, two records in one
\* chunk, and the first half of a record cut by the pipe.
Chunks ==
    { Line(b) : b \in Bodies }
    \cup { Line("progress10") \o Line(b) : b \in {"complete", "errorVALIDATION"} }
    \cup { <<"{", "progress10">> }

\* ----------------------------------------------------------------- events
\* What streamManager.broadcast is handed.
ProgressEvent(p, message) ==
    [type |-> "system", subtype |-> "progress", progress |-> <<p>>,
     message |-> message, error |-> <<>>]

CompletedEvent ==
    [type |-> "system", subtype |-> "podcast_completed", progress |-> <<>>,
     message |-> "", error |-> <<>>]

\* error: errorCode ? `${errorMessage} (${errorCode})` : errorMessage
ErrorEvent(errorMessage, errorCode) ==
    [type |-> "error", subtype |-> "", progress |-> <<>>, message |-> "",
     error |-> IF errorCode # Undefined THEN <<errorMessage, errorCode>>
               ELSE <<errorMessage>>]

CancelledEvent == ErrorEvent("Generation cancelled by user", Undefined)

\* streamManager.closeSession(streamingId), as it shows in `out`
CloseSession ==
    [type |-> "closeSession", subtype |-> "", progress |-> <<>>, message |-> "",
     error |-> <<>>]

IsTerminal(ev) == ev.type = "error" \/ ev.subtype = "podcast_completed"

\* ------------------------------------------------------------ generations
IdleGen ==
    [sid |-> "", phase |-> "unused",
     killed |-> FALSE, signals |-> <<>>,
     grace |-> "none", graceDelay |-> 0, why |-> "none",
     timer |-> "none", timerDelay |-> 0,
     file |-> "none", unlinks |-> 0]

\* The service's state as one value, threaded through the handlers below.
Cur ==
    [active |-> activeGenerations, gen |-> gen, terminals |-> terminals, out |-> <<>>]

\* ---------------------------------------------------------------- helpers
\* streamManager.broadcast(streamingId, event)
broadcast(S, id, ev) ==
    [S EXCEPT !.out = Append(@, [sid |-> id, ev |-> ev]),
              !.terminals[id] = IF IsTerminal(ev) /\ @ < MaxCount THEN @ + 1 ELSE @]

sendProgress(S, id, ev) == broadcast(S, id, ev)

closeSession(S, id) ==
    [S EXCEPT !.out = Append(@, [sid |-> id, ev |-> CloseSession])]

\* ChildProcess.kill(signal): with the handle still open the signal is sent
\* and `killed` is set; after the exit callback it returns false.
kill(S, g, signal) ==
    IF S.gen[g].phase = "running"
    THEN [S EXCEPT !.gen[g].killed = TRUE,
                   !.gen[g].signals = Append(@, signal)]
    ELSE S

\* process.kill('SIGTERM'); setTimeout(() => {...}, 5000), as cancelGeneration
\* and handleTimeout both have it
terminate(S, g, why) ==
    LET S1 == kill(S, g, "SIGTERM") IN
    [S1 EXCEPT !.gen[g].grace = "armed",
               !.gen[g].graceDelay = GRACE_MS,
               !.gen[g].why = why]

\* The callback of that setTimeout.
forceKill(S, g) ==
    LET S1 == [S EXCEPT !.gen[g].grace = "fired"] IN
    IF ~S1.gen[g].killed THEN kill(S1, g, "SIGKILL") ELSE S1

\* cleanupGeneration that empties the Map instead of deleting one key.
cleanupGeneration_ClearsMap(S, id) ==
    LET g == S.active[id] IN
    IF g = NoGen THEN S
    ELSE [S EXCEPT !.gen[g].timer = IF @ = "armed" THEN "cleared" ELSE @,
                   !.gen[g].file = "unlinked",
                   !.gen[g].unlinks = @ + 1,
                   !.active = [i \in Ids |-> NoGen]]

\* unlink is called and not awaited: the file is "unlinked" once the call is
\* made, and `unlinks` counts the calls.
cleanupGeneration(S, id) ==
    LET g == S.active[id] IN
    IF g = NoGen THEN S
    ELSE [S EXCEPT !.gen[g].timer = IF @ = "armed" THEN "cleared" ELSE @,
                   !.gen[g].file = "unlinked",
                   !.gen[g].unlinks = @ + 1,
                   !.active[id] = NoGen]

handleError(S, id, errorMessage, errorCode) ==
    cleanupGeneration(broadcast(S, id, ErrorEvent(errorMessage, errorCode)), id)

handleCompletion(S, id, message) ==
    LET S1 == broadcast(S, id, CompletedEvent)
        S2 == sendProgress(S1, id, ProgressEvent(100, "Podcast generation complete!"))
        S3 == cleanupGeneration(S2, id)
    IN  closeSession(S3, id)

\* handleProgressMessage whose default case reports an error.
handleProgressMessage_UnknownIsError(S, id, message) ==
    CASE message.type = "progress" ->
           sendProgress(S, id,
               ProgressEvent(IF message.percent = <<>> \/ message.percent[1] = 0
                             THEN 50 ELSE message.percent[1],
                             "Processing..."))
      [] message.type = "complete" -> handleCompletion(S, id, message)
      [] OTHER ->
           handleError(S, id,
               IF message.error = Undefined THEN "Unknown error from Python script"
               ELSE message.error,
               message.code)

handleProgressMessage(S, id, message) ==
    CASE message.type = "progress" ->
           sendProgress(S, id,
               ProgressEvent(IF message.percent = <<>> \/ message.percent[1] = 0
                             THEN 50 ELSE message.percent[1],
                             "Processing..."))
      [] message.type = "complete" -> handleCompletion(S, id, message)
      [] message.type = "error" ->
           handleError(S, id,
               IF message.error = Undefined THEN "Unknown error from Python script"
               ELSE message.error,
               message.code)
      [] OTHER -> S

RECURSIVE handleLines(_, _, _)
handleLines(S, id, lines) ==
    IF lines = <<>> THEN S
    ELSE LET m == JSONparse(Head(lines)) IN
         handleLines(IF m = SyntaxError THEN S ELSE handleProgressMessage(S, id, m),
                     id, Tail(lines))

RECURSIVE Reverse(_)
Reverse(s) == IF s = <<>> THEN <<>> ELSE Append(Reverse(Tail(s)), Head(s))

\* handleStdoutData that takes the lines of a chunk last first.
handleStdoutData_LastFirst(S, id, data) ==
    handleLines(S, id, Reverse(SelectSeq(Split(Trim(data)), LAMBDA line : Trim(line) # <<>>)))

handleStdoutData(S, id, data) ==
    handleLines(S, id, SelectSeq(Split(Trim(data)), LAMBDA line : Trim(line) # <<>>))

\* handleStderrData that takes what the worker writes to stderr for a failure.
handleStderrData_AsError(S, id) == handleError(S, id, "Debug", Undefined)

handleStderrData(S, id) ==
    sendProgress(S, id, ProgressEvent(0 - 1, "Debug"))

\* handleProcessExit that takes every exit for a clean one.
handleProcessExit_Quiet(S, id, code) ==
    IF S.active[id] = NoGen THEN S ELSE cleanupGeneration(S, id)

handleProcessExit(S, id, code) ==
    IF S.active[id] = NoGen THEN S
    ELSE IF code # 0 /\ code # Null
         THEN handleError(S, id, "Python script exited with code", "PROCESS_EXIT_ERROR")
         ELSE cleanupGeneration(S, id)

handleProcessError(S, id) ==
    handleError(S, id, "Process error", "PROCESS_SPAWN_ERROR")

handleTimeout(S, id) ==
    LET g == S.active[id]
        S1 == IF g # NoGen /\ ~S.gen[g].killed THEN terminate(S, g, "timeout") ELSE S
    IN  handleError(S1, id, "Podcast generation timed out", "TIMEOUT_ERROR")

\* cancelGeneration with the cleanup call left out.
cancelGeneration_NoCleanup(S, id) ==
    LET g == S.active[id] IN
    IF g = NoGen THEN [st |-> S, ret |-> FALSE]
    ELSE LET S1 == IF ~S.gen[g].killed THEN terminate(S, g, "cancel") ELSE S
         IN  [st |-> broadcast(S1, id, CancelledEvent), ret |-> TRUE]

\* cancelGeneration that notifies the client before it looks the id up.
cancelGeneration_NotifyFirst(S, id) ==
    LET g == S.active[id]
        S0 == broadcast(S, id, CancelledEvent)
    IN  IF g = NoGen THEN [st |-> S0, ret |-> FALSE]
        ELSE LET S1 == IF ~S.gen[g].killed THEN terminate(S0, g, "cancel") ELSE S0
             IN  [st |-> cleanupGeneration(S1, id), ret |-> TRUE]

getGenerationStatus(S, id) == [active |-> S.active[id] # NoGen]

\* The new state and the value returned.
cancelGeneration(S, id) ==
    LET g == S.active[id] IN
    IF g = NoGen THEN [st |-> S, ret |-> FALSE]
    ELSE LET S1 == IF ~S.gen[g].killed THEN terminate(S, g, "cancel") ELSE S
             S2 == cleanupGeneration(S1, id)
         IN  [st |-> broadcast(S2, id, CancelledEvent), ret |-> TRUE]

\* cleanup() whose loop ends once an entry has been deleted under it.
cleanup_FirstOnly(S, keys) ==
    IF keys = <<>> THEN S ELSE cancelGeneration(S, Head(keys)).st

\* cleanup(): cancelGeneration for each key of the Map, in the Map's order.
\* Each promise's executor runs at once, so all the calls are made before
\* the await, and nothing but the return follows the await.
RECURSIVE cleanup(_, _)
cleanup(S, keys) ==
    IF keys = <<>> THEN S
    ELSE cleanup(cancelGeneration(S, Head(keys)).st, Tail(keys))

\* ---------------------------------------------------------------- actions
\* No worker is observed: the pipe and the log of publications stay empty.
NoWorker == [lines |-> <<>>, chunks |-> <<>>, pending |-> <<>>, code |-> <<>>]

\* No session is observed.
Subscribers == {"s1", "s2"}
NoSink ==
    [subs |-> <<>>, got |-> [s \in Subscribers |-> <<>>], since |-> [s \in Subscribers |-> 0],
     ended |-> {}, n |-> 0]

\* ------------------------------------- ClaunchService as constructed
\* (src/src/services/claunch-service.ts).  Time is counted in ticks of the
\* clock that new Date() reads; inactivityTimeoutMs is a number of ticks.
\* An interval is a handle; a handle that is set names what its callback
\* is for (a streaming id, or "monitor"), and "" once it is cleared.  A new
\* interval takes the least handle that is not set, which no record refers
\* to: records are deleted or given a new handle when theirs is cleared.
SessionIds == {"session-1", "session-2"}
Handles == 1..(Cardinality(SessionIds) + 2)
NoTimer == 0
Intervals == {30000}
Configs ==
    [enabled : BOOLEAN, intervalMs : Intervals,
     inactivityTimeoutMs : 0..(MaxNow - 1),
     autoReconnect : BOOLEAN, maxReconnectAttempts : 0..MaxAttempts]

NoActivity ==
    [lastActivity |-> 0, keepAliveTimer |-> NoTimer, isActive |-> FALSE,
     reconnectAttempts |-> 0]

\* new ClaunchService(config): the Map is keys (in insertion order) and the
\* record of each key.
ClaunchService(config) ==
    [config |-> config,
     keys |-> <<>>,
     sessions |-> [id \in SessionIds |-> NoActivity],
     timers |-> [h \in Handles |-> ""],
     monitorInterval |-> NoTimer,
     processManager |-> FALSE,
     now |-> 0,
     emitted |-> <<>>]

NoClaunch ==
    ClaunchService([enabled |-> TRUE, intervalMs |-> CHOOSE i \in Intervals : TRUE,
                    inactivityTimeoutMs |-> 0, autoReconnect |-> FALSE,
                    maxReconnectAttempts |-> MaxAttempts])

\* ------------------------------------- VoiceHookManager as constructed
\* (src/unnamed/part_007), seen through one hook type: nothing registered
\* for it, no execute call made.
NoHooks ==
    [handlers |-> <<>>, phase |-> "registering", pos |-> 0, awaiting |-> 0,
     running |-> {}, started |-> <<>>, result |-> "none"]

\* ------------------------------------- VoiceModeService as constructed
\* (src/src/services/voice-mode-service.ts).  A child process is known by
\* the number of the spawn that made it; the process field holds such a
\* number, or NoProc for null.
Procs == 1..MaxCalls
NoProc == 0
NoChild ==
    [state |-> "unused", killed |-> FALSE, signals |-> {}, stops |-> 0,
     restarts |-> 0]

NoVoice ==
    [isRunning |-> FALSE, process |-> NoProc,
     procs |-> [p \in Procs |-> NoChild],
     starting |-> 0, killTimers |-> 0, calls |-> 0]

Init ==
    /\ activeGenerations = [id \in Ids |-> NoGen]
    /\ gen = [g \in Gens |-> IdleGen]
    /\ terminals = [id \in Ids |-> 0]
    /\ out = <<>>
    /\ ret = "void"
    /\ worker = NoWorker
    /\ published = <<>>
    /\ sink = NoSink
    /\ claunch = NoClaunch
    /\ hooks = NoHooks
    /\ voice = NoVoice

\* A handler has run to completion: S is the state it leaves.
Commit(S, r) ==
    /\ activeGenerations' = S.active
    /\ gen' = S.gen
    /\ terminals' = S.terminals
    /\ out' = S.out
    /\ ret' = r

Done(S, r) ==
    /\ Commit(S, r)
    /\ UNCHANGED <<worker, published, sink, claunch, hooks, voice>>

Unused == {g \in Gens : gen[g].phase = "unused"}

\* generatePodcast, up to `await writeFile(...)` inside createConfigFile.
GeneratePodcast(id) ==
    /\ Unused # {}
    /\ LET g == CHOOSE x \in Unused : \A y \in Unused : x <= y
           S == [Cur EXCEPT !.gen[g].sid = id, !.gen[g].phase = "staging",
                            !.terminals[id] = 0]
       IN  Done(S, "void")

\* generatePodcast, from the settling of writeFile to its end.  writeFile may
\* reject; spawn may throw, or report its failure by an 'error' event that
\* is emitted before any other callback runs.
Outcomes == {"writeFailed", "spawnThrew", "spawnError", "spawned"}

generatePodcastRest(S, g, outcome) ==
    LET id == S.gen[g].sid IN
    CASE outcome = "writeFailed" ->
           handleError([S EXCEPT !.gen[g].phase = "failed"], id,
                       "Failed to start podcast generation", Undefined)
      [] outcome = "spawnThrew" ->
           handleError([S EXCEPT !.gen[g].phase = "failed", !.gen[g].file = "present"],
                       id, "Failed to start podcast generation", Undefined)
      [] OTHER ->
           LET S1 == [S EXCEPT !.gen[g].file = "present",
                               !.gen[g].phase = IF outcome = "spawned" THEN "running"
                                                ELSE "failed",
                               !.active[id] = g,
                               !.gen[g].timer = "armed",
                               !.gen[g].timerDelay = TIMEOUT_MS]
           IN  IF outcome = "spawned" THEN S1 ELSE handleProcessError(S1, id)

WriteFileSettled(g, outcome) ==
    /\ gen[g].phase = "staging"
    /\ Done(generatePodcastRest(Cur, g, outcome), "void")

CancelGeneration(id) ==
    /\ id \in Ids
    /\ Done(cancelGeneration(Cur, id).st,
            IF cancelGeneration(Cur, id).ret THEN "true" ELSE "false")

StreamOpen(g) == gen[g].phase \in {"running", "exited"}

StdoutData(g, data) ==
    /\ StreamOpen(g)
    /\ Done(handleStdoutData(Cur, gen[g].sid, data), "void")

StderrData(g) ==
    /\ StreamOpen(g)
    /\ Done(handleStderrData(Cur, gen[g].sid), "void")

\* The child's 'exit' event: the process has ended and its handle is closed.
ProcessExit(g, code) ==
    /\ gen[g].phase = "running"
    /\ Done(handleProcessExit([Cur EXCEPT !.gen[g].phase = "exited"], gen[g].sid, code),
            "void")

\* The timer armed by generatePodcast fires: TIMEOUT_MS have passed.
Timeout(g) ==
    /\ gen[g].timer = "armed"
    /\ Done(handleTimeout([Cur EXCEPT !.gen[g].timer = "fired"], gen[g].sid), "void")

\* The timer armed with SIGTERM fires: 5000 ms have passed.
GraceElapsed(g) ==
    /\ gen[g].grace = "armed"
    /\ Done(forceKill(Cur, g), "void")

Next ==
    \/ \E id \in StartIds : GeneratePodcast(id)
    \/ \E g \in Gens, o \in Outcomes : WriteFileSettled(g, o)
    \/ \E id \in Ids : CancelGeneration(id)
    \/ \E g \in Gens, data \in Chunks : StdoutData(g, data)
    \/ \E g \in Gens : StderrData(g)
    \/ \E g \in Gens, code \in ExitCodes : ProcessExit(g, code)
    \/ \E g \in Gens : Timeout(g)
    \/ \E g \in Gens : GraceElapsed(g)

Spec == Init /\ [][Next]_vars

\* ------------------------------------------------- the unlink settles
\* unlink(configFilePath).catch(...) with a catch that reports the failure
\* to the clients.
unlinkSettled_Escalates(S, g, ok) ==
    IF ok THEN [S EXCEPT !.gen[g].file = "deleted"]
    ELSE handleError([S EXCEPT !.gen[g].file = "leaked"], S.gen[g].sid,
                     "Failed to clean up config file", Undefined)

\* The promise of the unlink that cleanupGeneration started settles: the
\* file is gone, or the rejection is caught and logged.
unlinkSettled(S, g, ok) ==
    [S EXCEPT !.gen[g].file = IF ok THEN "deleted" ELSE "leaked"]

UnlinkSettled(g, ok) ==
    /\ gen[g].file = "unlinked"
    /\ Done(unlinkSettled(Cur, g, ok), "void")

\* The workers' output is not followed here: a record changes what the
\* service holds only by ending the job, as the exit, timeout and cancel
\* steps do.
UnlinkNext ==
    \/ \E id \in StartIds : GeneratePodcast(id)
    \/ \E g \in Gens, o \in Outcomes : WriteFileSettled(g, o)
    \/ \E id \in Ids : CancelGeneration(id)
    \/ \E g \in Gens, code \in ExitCodes : ProcessExit(g, code)
    \/ \E g \in Gens : Timeout(g)
    \/ \E g \in Gens : GraceElapsed(g)
    \/ \E g \in Gens, ok \in BOOLEAN : UnlinkSettled(g, ok)

UnlinkSpec == Init /\ [][UnlinkNext]_vars

\* ------------------------------------------------- progress records
\* The worker prints one progress record on a line of its own: with percent
\* 0, with percent 10, or without a percent field.
ProgressBodies == {"progress0", "progress10", "progress"}

ProgressData(g, b) ==
    /\ StreamOpen(g)
    /\ Done(handleStdoutData(Cur, gen[g].sid, Line(b)), "void")

ProgressNext ==
    \/ \E id \in StartIds : GeneratePodcast(id)
    \/ \E g \in Gens, o \in Outcomes : WriteFileSettled(g, o)
    \/ \E id \in Ids : CancelGeneration(id)
    \/ \E g \in Gens, b \in ProgressBodies : ProgressData(g, b)
    \/ \E g \in Gens, code \in ExitCodes : ProcessExit(g, code)
    \/ \E g \in Gens : Timeout(g)
    \/ \E g \in Gens : GraceElapsed(g)

ProgressSpec == Init /\ [][ProgressNext]_vars

\* ------------------------------------------------- two jobs side by side
\* A job is started under each id, once, and every callback of both runs.
StartOnce(id) ==
    /\ \A g \in Gens : gen[g].sid # id
    /\ GeneratePodcast(id)

TwoJobsNext ==
    \/ \E id \in Ids : StartOnce(id)
    \/ \E g \in Gens, o \in Outcomes : WriteFileSettled(g, o)
    \/ \E id \in Ids : CancelGeneration(id)
    \/ \E g \in Gens, data \in Chunks : StdoutData(g, data)
    \/ \E g \in Gens : StderrData(g)
    \/ \E g \in Gens, code \in ExitCodes : ProcessExit(g, code)
    \/ \E g \in Gens : Timeout(g)
    \/ \E g \in Gens : GraceElapsed(g)

TwoJobsSpec == Init /\ [][TwoJobsNext]_vars

\* ------------------------------------------------ two ids, and shutdown
\* The orders in which a Map that holds the ids of `set` yields its keys.
RECURSIVE Orders(_)
Orders(set) ==
    IF set = {} THEN {<<>>}
    ELSE UNION {{<<id>> \o rest : rest \in Orders(set \ {id})} : id \in set}

ActiveIds == {id \in Ids : activeGenerations[id] # NoGen}

\* cleanup(), from the call to the return.
Shutdown ==
    \E keys \in Orders(ActiveIds) :
        /\ Len(keys) = Cardinality(ActiveIds)
        /\ Done(cleanup(Cur, keys), "void")

\* Jobs are started under both ids.  The workers' output is not followed
\* here: a record changes what the service holds only by ending the job, as
\* the exit, timeout and cancel steps do.
ShutdownNext ==
    \/ \E id \in Ids : GeneratePodcast(id)
    \/ \E g \in Gens, o \in Outcomes : WriteFileSettled(g, o)
    \/ \E id \in Ids : CancelGeneration(id)
    \/ \E g \in Gens, code \in ExitCodes : ProcessExit(g, code)
    \/ \E g \in Gens : Timeout(g)
    \/ \E g \in Gens : GraceElapsed(g)
    \/ Shutdown

ShutdownSpec == Init /\ [][ShutdownNext]_vars

\* ------------------------------------------------------- claims C1 .. C10
Spawned(g) == gen[g].phase \in {"running", "exited"}

\* The workers of id that run and have not been signalled.
LiveWorkers(id) ==
    {g \in Gens : gen[g].sid = id /\ gen[g].phase = "running" /\ ~gen[g].killed}

\* The generations generatePodcast(id) has begun.
GenerationsOf(id) == {g \in Gens : gen[g].sid = id /\ gen[g].phase # "unused"}

\* What the service owns of a generation: its timers, its signals, its file.
Owned(r) ==
    [timer |-> r.timer, timerDelay |-> r.timerDelay, grace |-> r.grace,
     graceDelay |-> r.graceDelay, killed |-> r.killed,
     signals |-> r.signals, file |-> r.file, unlinks |-> r.unlinks]

\* C1: a Start for an id that is in the active set is answered
\* AlreadyRunning and begins no second generation (no scratch file, no
\* worker); at most one running worker process exists per id.
C1_StartTwice ==
    /\ [][\A id \in StartIds :
             (GeneratePodcast(id) /\ activeGenerations[id] # NoGen)
             => ret' = "AlreadyRunning" /\ gen' = gen]_vars
    /\ [](\A id \in Ids : Cardinality(LiveWorkers(id)) <= 1)

\* C2: for a job started once, at most one terminal event (complete or
\* error) is ever published for its id.
C2_AtMostOneTerminal ==
    \A id \in Ids : Cardinality(GenerationsOf(id)) <= 1 => terminals[id] <= 1

\* A callback of generation g's worker or timer runs.
WorkerCallback(g) ==
    \/ \E data \in Chunks : StdoutData(g, data)
    \/ StderrData(g)
    \/ \E code \in ExitCodes : ProcessExit(g, code)
    \/ Timeout(g)

\* C3: once a job has left the active set, a later stdout record, stderr
\* chunk, process-exit callback or timeout callback for its id publishes
\* nothing and changes nothing the service owns.
C3_LateCallbacksIgnored ==
    [][\A g \in Gens :
          (Spawned(g) /\ activeGenerations[gen[g].sid] = NoGen /\ WorkerCallback(g))
          => /\ out' = <<>>
             /\ activeGenerations' = activeGenerations
             /\ terminals' = terminals
             /\ \A h \in Gens : Owned(gen'[h]) = Owned(gen[h])]_vars

\* C4: whenever a job leaves the active set, a terminal event has been
\* published for it.
C4_NeverSilent ==
    [][\A id \in Ids :
          (activeGenerations[id] # NoGen /\ activeGenerations'[id] = NoGen)
          => terminals'[id] >= 1]_vars

\* C5: once a spawned job's worker has exited, the job's scratch file has
\* been unstaged exactly once.
C5_UnstagedExactlyOnce ==
    \A g \in Gens : gen[g].phase = "exited" => gen[g].unlinks = 1

\* C6: SIGKILL is sent to a cancelled worker only by the callback of the
\* timer armed for GRACE_MS with SIGTERM, and that callback sends it when
\* the worker has not exited.
C6_ForceKillAfterGrace ==
    [][\A g \in Gens :
          /\ (GraceElapsed(g) /\ gen[g].why = "cancel" /\ gen[g].phase = "running")
             => gen'[g].signals = Append(gen[g].signals, "SIGKILL")
          /\ (gen[g].why # "timeout" /\ gen'[g].signals # gen[g].signals
              /\ gen'[g].signals[Len(gen'[g].signals)] = "SIGKILL")
             => GraceElapsed(g) /\ gen[g].graceDelay = GRACE_MS]_vars

TimeoutEvent == ErrorEvent("Podcast generation timed out", "TIMEOUT_ERROR")

\* C7: when the timeout of a running job fires, SIGTERM is sent, exactly one
\* error event with code TIMEOUT_ERROR (not the cancellation event) is
\* published and the job leaves the active set; when the grace timer then
\* fires with the worker still alive, SIGKILL is sent.
C7_TimeoutEscalates ==
    [][\A g \in Gens :
          /\ (Timeout(g) /\ activeGenerations[gen[g].sid] = g)
             => /\ gen[g].timerDelay = TIMEOUT_MS
                /\ gen'[g].signals = <<"SIGTERM">>
                /\ out' = <<[sid |-> gen[g].sid, ev |-> TimeoutEvent]>>
                /\ TimeoutEvent # CancelledEvent
                /\ activeGenerations'[gen[g].sid] = NoGen
          /\ (GraceElapsed(g) /\ gen[g].why = "timeout" /\ gen[g].phase = "running")
             => gen'[g].signals = Append(gen[g].signals, "SIGKILL")]_vars

\* The service's state after the step just taken.
CurNext ==
    [active |-> activeGenerations', gen |-> gen', terminals |-> terminals', out |-> <<>>]

\* C8: Cancel(id) returns true exactly when id is active; it then sends
\* SIGTERM to the job's worker, publishes exactly the cancellation error
\* event, removes the job from the active set and leaves the worker running;
\* a Cancel(id) made next returns false.
C8_CancelContract ==
    [][\A id \in Ids :
          CancelGeneration(id)
          => LET g == activeGenerations[id] IN
             /\ (ret' = "true") = (g # NoGen)
             /\ g # NoGen =>
                  /\ gen'[g].signals = <<"SIGTERM">>
                  /\ out' = <<[sid |-> id, ev |-> CancelledEvent]>>
                  /\ activeGenerations'[id] = NoGen
                  /\ gen'[g].phase = "running"
                  /\ ~cancelGeneration(CurNext, id).ret]_vars

C8_Witness ==
    /\ ret = "true"
    /\ out = <<[sid |-> "job-1", ev |-> CancelledEvent]>>
    /\ \E g \in Gens :
          /\ gen[g].phase = "running" /\ gen[g].why = "cancel"
          /\ gen[g].signals = <<"SIGTERM">>
    /\ activeGenerations["job-1"] = NoGen

\* C9: a Cancel(id) made after Start(id) was invoked and before the job's
\* terminal event, also while the config file is still being staged,
\* returns true.
C9_CancelWhileStarting ==
    [][\A id \in Ids :
          (CancelGeneration(id)
           /\ \E g \in Gens : gen[g].sid = id /\ gen[g].phase = "staging")
          => ret' = "true"]_vars

\* C10: Cancel(id) for an id that is not active returns false, sends no
\* signal, publishes nothing and leaves the active set, every timer and
\* every scratch file as they were.
C10_CancelInactiveIsNoOp ==
    [][\A id \in Ids :
          (CancelGeneration(id) /\ activeGenerations[id] = NoGen)
          => /\ ret' = "false"
             /\ out' = <<>>
             /\ UNCHANGED <<activeGenerations, gen, terminals>>]_vars

C10_Witness ==
    /\ ret = "false"
    /\ out = <<>>
    /\ \E g \in Gens : gen[g].phase = "exited" /\ gen[g].file = "unlinked"
    /\ \E g \in Gens : activeGenerations["job-1"] = g /\ gen[g].timer = "armed"

\* ------------------------------------------------- one worker, observed
\* A job is started and its worker spawned; what the worker writes to its
\* stdout is fixed from the start, the pipe delivers it cut into chunks, and
\* the worker exits at some moment, before or after the pipe is drained.
Malformed == <<"{", "oops", NL>>
Records == {"progress10", "complete", "errorVALIDATION", "log"}
Lines == {Line(b) : b \in Records} \cup {Malformed}
LineSeqs == UNION {[1..n -> Lines] : n \in 0..MaxLines}

RECURSIVE Concat(_)
Concat(ss) == IF ss = <<>> THEN <<>> ELSE Head(ss) \o Concat(Tail(ss))

\* The ways a pipe delivers s in at most n chunks, none of them empty.
RECURSIVE Splits(_, _)
Splits(s, n) ==
    IF s = <<>> THEN {<<>>}
    ELSE IF n <= 1 THEN {<<s>>}
    ELSE {<<s>>} \cup
         UNION {{<<SubSeq(s, 1, k)>> \o rest : rest \in Splits(SubSeq(s, k + 1, Len(s)), n - 1)}
                : k \in 1..(Len(s) - 1)}

\* The service as constructed, and after generatePodcast("job-1") has
\* returned with the worker spawned.
Fresh ==
    [active |-> [id \in Ids |-> NoGen], gen |-> [g \in Gens |-> IdleGen],
     terminals |-> [id \in Ids |-> 0], out |-> <<>>]

Observed == CHOOSE g \in Gens : \A h \in Gens : g <= h

Accepted ==
    generatePodcastRest([Fresh EXCEPT !.gen[Observed].sid = "job-1",
                                      !.gen[Observed].phase = "staging"],
                        Observed, "spawned")

WorkerInit ==
    /\ activeGenerations = Accepted.active
    /\ gen = Accepted.gen
    /\ terminals = Accepted.terminals
    /\ out = <<>>
    /\ ret = "void"
    /\ \E ls \in LineSeqs : \E cs \in Splits(Concat(ls), MaxChunks) :
          worker = [lines |-> ls, chunks |-> cs, pending |-> cs, code |-> <<>>]
    /\ published = <<>>
    /\ sink = NoSink
    /\ claunch = NoClaunch
    /\ hooks = NoHooks
    /\ voice = NoVoice

\* A handler has run to completion and what it published is on record.
Observe(S, r) ==
    /\ Commit(S, r)
    /\ published' = published \o S.out
    /\ UNCHANGED <<sink, claunch, hooks, voice>>

\* stdout 'data': the pipe delivers its next chunk.
WorkerStdout ==
    /\ worker.pending # <<>>
    /\ StreamOpen(Observed)
    /\ Observe(handleStdoutData(Cur, gen[Observed].sid, Head(worker.pending)), "void")
    /\ worker' = [worker EXCEPT !.pending = Tail(@)]

\* 'exit'
WorkerExit(code) ==
    /\ gen[Observed].phase = "running"
    /\ Observe(handleProcessExit([Cur EXCEPT !.gen[Observed].phase = "exited"],
                                 gen[Observed].sid, code), "void")
    /\ worker' = [worker EXCEPT !.code = <<code>>]

WorkerNext ==
    \/ WorkerStdout
    \/ \E code \in ExitCodes : WorkerExit(code)

WorkerSpec == WorkerInit /\ [][WorkerNext]_vars

\* ------------------------------------------------- one session's sink
\* StreamManager for one streaming id: addClient, the removal of a client
\* whose connection closed, broadcast and closeSession.  The service is idle
\* here; the events are numbered as they are published.
Remove(list, s) == SelectSeq(list, LAMBDA x : x # s)

\* broadcast whose loop over the clients ends at the first failed write.
RECURSIVE deliver_StopAtFailure(_, _, _, _)
deliver_StopAtFailure(K, list, ev, failing) ==
    IF list = <<>> THEN K
    ELSE IF Head(list) \in failing
         THEN [K EXCEPT !.subs = Remove(@, Head(list))]
         ELSE deliver_StopAtFailure([K EXCEPT !.got[Head(list)] = Append(@, ev)],
                                    Tail(list), ev, failing)

\* The event goes to each client in registration order; a client the write
\* fails for is removed and the others are still written to.
RECURSIVE deliver(_, _, _, _)
deliver(K, list, ev, failing) ==
    IF list = <<>> THEN K
    ELSE deliver(IF Head(list) \in failing
                 THEN [K EXCEPT !.subs = Remove(@, Head(list))]
                 ELSE [K EXCEPT !.got[Head(list)] = Append(@, ev)],
                 Tail(list), ev, failing)

Range(list) == {list[i] : i \in 1..Len(list)}

SinkIdle ==
    UNCHANGED <<activeGenerations, gen, terminals, out, ret, worker, published,
                claunch, hooks, voice>>

Subscribe(s) ==
    /\ s \notin Range(sink.subs)
    /\ s \notin sink.ended
    /\ sink' = [sink EXCEPT !.subs = Append(@, s), !.since[s] = sink.n, !.got[s] = <<>>]
    /\ SinkIdle

Unsubscribe(s) ==
    /\ s \in Range(sink.subs)
    /\ sink' = [sink EXCEPT !.subs = Remove(@, s)]
    /\ SinkIdle

Publish(terminal, failing) ==
    /\ sink.n < MaxEvents
    /\ failing \subseteq Range(sink.subs)
    /\ sink' = deliver([sink EXCEPT !.n = @ + 1], sink.subs,
                       [seq |-> sink.n + 1, terminal |-> terminal], failing)
    /\ SinkIdle

\* closeSession: end-of-stream to every client, and the id is forgotten.
SinkClose ==
    /\ sink.subs # <<>>
    /\ sink' = [sink EXCEPT !.subs = <<>>, !.ended = @ \cup Range(sink.subs)]
    /\ SinkIdle

SinkNext ==
    \/ \E s \in Subscribers : Subscribe(s)
    \/ \E s \in Subscribers : Unsubscribe(s)
    \/ \E t \in BOOLEAN, f \in SUBSET Subscribers : Publish(t, f)
    \/ SinkClose

SinkSpec == Init /\ [][SinkNext]_vars

\* ------------------------------------------------------ claims C11 .. C15
\* What the handlers hand to the StreamManager for one record of the worker.
Expected(b) ==
    CASE b = "progress10" -> <<ProgressEvent(10, "Processing...")>>
      [] b = "errorVALIDATION" -> <<ErrorEvent("bad input", "VALIDATION")>>
      [] b = "complete" ->
           <<CompletedEvent, ProgressEvent(100, "Podcast generation complete!"), CloseSession>>
      [] OTHER -> <<>>

RECURSIVE ExpectedLog(_)
ExpectedLog(ls) ==
    IF ls = <<>> THEN <<>>
    ELSE [i \in 1..Len(Expected(Head(ls)[2])) |-> [sid |-> "job-1", ev |-> Expected(Head(ls)[2])[i]]]
         \o ExpectedLog(Tail(ls))

\* The events a subscriber of job-1 has observed.
Events ==
    SelectSeq(published, LAMBDA e : e.sid = "job-1" /\ e.ev.type # "closeSession")

ExitErrorEvent == ErrorEvent("Python script exited with code", "PROCESS_EXIT_ERROR")

\* The pipe is drained and the worker has not exited yet.
Drained == worker.pending = <<>> /\ worker.code = <<>>

RECURSIVE IsSubseq(_, _)
IsSubseq(a, b) ==
    IF a = <<>> THEN TRUE
    ELSE IF b = <<>> THEN FALSE
    ELSE IF Head(a) = Head(b) THEN IsSubseq(Tail(a), Tail(b))
    ELSE IsSubseq(a, Tail(b))

\* C11: however the worker's output is cut into chunks, what has been
\* published once the last chunk is handled is what handling the output in
\* one piece publishes: a record that spans chunks is neither dropped nor
\* decoded as fragments.
C11_ChunkingInvisible ==
    Drained => published = handleStdoutData(Accepted, "job-1", Concat(worker.lines)).out

\* C12: output of one malformed line followed by N well-formed lines
\* publishes exactly the events of the N records, in the order of the lines;
\* the malformed line publishes nothing and, when no record that follows is
\* a terminal one, the job is still active.
C12_MalformedLineSkipped ==
    LET ls == worker.lines IN
    (/\ Drained
     /\ ls # <<>> /\ Head(ls) = Malformed
     /\ \A i \in 2..Len(ls) : ls[i] # Malformed)
    => /\ published = ExpectedLog(Tail(ls))
       /\ (\A i \in 2..Len(ls) : ls[i] = Line("progress10"))
          => /\ activeGenerations["job-1"] = Observed
             /\ terminals["job-1"] = 0
             /\ gen[Observed].timer = "armed"

\* C13: the events published for the job are in the order in which the
\* worker wrote their records, also for records that arrive in one chunk.
C13_OrderPreserved ==
    IsSubseq(SelectSeq(published, LAMBDA e : e.ev # ExitErrorEvent),
             ExpectedLog(worker.lines))

C13_Witness ==
    /\ worker.chunks = <<Line("progress10") \o Line("errorVALIDATION") \o Line("progress10")>>
    /\ worker.pending = <<>>
    /\ Len(published) = 3

\* C14: a worker that writes two progress records and a complete record and
\* exits with code 0 has made a subscriber observe exactly three events, the
\* last of them the complete event; the job is then inactive and its scratch
\* file removed.
C14_HappyPath ==
    (/\ worker.lines = <<Line("progress10"), Line("progress10"), Line("complete")>>
     /\ worker.pending = <<>>
     /\ worker.code = <<0>>)
    => /\ Len(Events) = 3
       /\ Events[Len(Events)].ev = CompletedEvent
       /\ ~getGenerationStatus(Cur, "job-1").active
       /\ gen[Observed].file = "unlinked"

\* C15: a worker that writes one error record with code VALIDATION and
\* exits with a nonzero code has made a subscriber observe exactly one error
\* event, the one with code VALIDATION, and the job is inactive, whichever
\* of the stdout and the exit callback ran first.
C15_ErrorThenExit ==
    (/\ worker.chunks = <<Line("errorVALIDATION")>>
     /\ worker.pending = <<>>
     /\ worker.code # <<>> /\ worker.code[1] \notin {0, Null})
    => /\ Events = <<[sid |-> "job-1", ev |-> ErrorEvent("bad input", "VALIDATION")]>>
       /\ ~getGenerationStatus(Cur, "job-1").active

\* ------------------------------------------------------ claims C16 .. C20
\* C16: when the worker of an active job exits with a nonzero code, exactly
\* one error event, with code PROCESS_EXIT_ERROR, is published, the job
\* leaves the active set, its timeout timer is cancelled and its scratch
\* file is unstaged.
C16_NonzeroExit ==
    [][\A g \in Gens, code \in ExitCodes :
          (ProcessExit(g, code) /\ code # 0 /\ code # Null
           /\ activeGenerations[gen[g].sid] = g)
          => /\ out' = <<[sid |-> gen[g].sid, ev |-> ExitErrorEvent]>>
             /\ activeGenerations'[gen[g].sid] = NoGen
             /\ gen[g].timer = "armed" /\ gen'[g].timer = "cleared"
             /\ gen[g].file = "present" /\ gen'[g].file = "unlinked"
             /\ gen'[g].unlinks = 1]_vars

C16_Witness ==
    /\ out = <<[sid |-> "job-1", ev |-> ExitErrorEvent]>>
    /\ activeGenerations["job-1"] = NoGen
    /\ \E g \in Gens :
          /\ gen[g].phase = "exited" /\ gen[g].timer = "cleared"
          /\ gen[g].file = "unlinked" /\ gen[g].unlinks = 1
          /\ gen[g].signals = <<>>

\* What Status(id) answers now, and after the step just taken.
Status(id) == getGenerationStatus(Cur, id).active
StatusNext(id) == getGenerationStatus(CurNext, id).active

\* A terminal event for id is among the events the step just taken published.
TerminalPublished(id) ==
    \E i \in 1..Len(out') : out'[i].sid = id /\ IsTerminal(out'[i].ev)

\* The step just taken is a terminal transition of generation g: a terminal
\* record of its worker, the exit of its worker, its timeout, or a Cancel of
\* its id while the active set holds it.
TerminalTransition(g) ==
    \/ \E data \in Chunks : StdoutData(g, data) /\ TerminalPublished(gen[g].sid)
    \/ \E code \in ExitCodes : ProcessExit(g, code)
    \/ Timeout(g)
    \/ CancelGeneration(gen[g].sid) /\ activeGenerations[gen[g].sid] = g

\* Every other job begun under the id of generation g has been terminated.
OthersTerminated(g) ==
    \A h \in GenerationsOf(gen[g].sid) \ {g} :
        gen[h].killed \/ gen[h].phase \in {"exited", "failed"}

\* C17: Status(id) is active from the step in which generatePodcast(id) has
\* spawned the worker; it is inactive after every complete event, error
\* event, process exit, Cancel and timeout of the job, and for an id never
\* started; and a job whose id has no other job left running stays active
\* until its own terminal transition.
C17_StatusFollowsLifecycle ==
    /\ [][\A g \in Gens : WriteFileSettled(g, "spawned") => StatusNext(gen[g].sid)]_vars
    /\ [][\A id \in Ids :
             (TerminalPublished(id) \/ CancelGeneration(id)
              \/ \E g \in Gens : gen[g].sid = id /\ TerminalTransition(g))
             => ~StatusNext(id)]_vars
    /\ [](\A id \in Ids : GenerationsOf(id) = {} => ~Status(id))
    /\ [][\A id \in Ids :
             (Status(id) /\ ~StatusNext(id) /\ OthersTerminated(activeGenerations[id]))
             => TerminalTransition(activeGenerations[id])]_vars

\* The cancellation events for id among those the step just taken published.
CancelEvents(id) ==
    {i \in 1..Len(out') : out'[i] = [sid |-> id, ev |-> CancelledEvent]}

\* C18: when Shutdown returns the active set is empty, and every job that
\* was active when it was called has been sent SIGTERM and has had exactly
\* one cancellation error event published (and nothing else was published).
C18_ShutdownCancelsAll ==
    [][Shutdown
       => /\ \A id \in Ids : activeGenerations'[id] = NoGen
          /\ \A id \in ActiveIds :
                /\ gen'[activeGenerations[id]].signals
                      = Append(gen[activeGenerations[id]].signals, "SIGTERM")
                /\ Cardinality(CancelEvents(id)) = 1
          /\ Len(out') = Cardinality(ActiveIds)]_vars

C18_Witness ==
    /\ Len(out) = 2
    /\ \A id \in Ids :
          /\ activeGenerations[id] = NoGen
          /\ \E i \in 1..Len(out) : out[i] = [sid |-> id, ev |-> CancelledEvent]
          /\ \E g \in Gens : /\ gen[g].sid = id /\ gen[g].phase = "running"
                               /\ gen[g].signals = <<"SIGTERM">> /\ gen[g].why = "cancel"

\* C19: when Shutdown returns, the worker of every job that was active when
\* it was called has exited and the job's scratch file is deleted.
C19_ShutdownAwaitsTermination ==
    [][Shutdown
       => \A id \in ActiveIds :
             /\ gen'[activeGenerations[id]].phase = "exited"
             /\ gen'[activeGenerations[id]].file = "unlinked"]_vars

\* C20: every terminal transition of a job leaves the job's timeout timer
\* not armed; the timeout callback fires only for a job in the active set,
\* and a TIMEOUT_ERROR event is published only for an id that is active.
C20_TimerCancelled ==
    /\ [][\A g \in Gens : TerminalTransition(g) => gen'[g].timer # "armed"]_vars
    /\ [][\A g \in Gens : Timeout(g) => activeGenerations[gen[g].sid] = g]_vars
    /\ [][\A id \in Ids :
             (\E i \in 1..Len(out') : out'[i] = [sid |-> id, ev |-> TimeoutEvent])
             => Status(id)]_vars

\* ------------------------------------------------------ claims C21 .. C30
\* C21: in what a handler hands to the StreamManager, every terminal event
\* of a job is followed by the closing of the job's session, and a session
\* is closed only after a terminal event of its job.
C21_SessionClosedAfterTerminal ==
    [][\A id \in Ids :
          /\ \A i \in 1..Len(out') :
                (out'[i].sid = id /\ IsTerminal(out'[i].ev))
                => \E j \in (i + 1)..Len(out') : out'[j] = [sid |-> id, ev |-> CloseSession]
          /\ \A j \in 1..Len(out') :
                out'[j] = [sid |-> id, ev |-> CloseSession]
                => \E i \in 1..(j - 1) : out'[i].sid = id /\ IsTerminal(out'[i].ev)]_vars

C23_StderrForwarded ==
    [][\A g \in Gens :
          StderrData(g)
          => /\ out' = <<[sid |-> gen[g].sid, ev |-> ProgressEvent(0 - 1, "Debug")]>>
             /\ ~IsTerminal(out'[1].ev)
             /\ UNCHANGED <<activeGenerations, gen, terminals>>]_vars

C23_Witness ==
    /\ out = <<[sid |-> "job-1", ev |-> ProgressEvent(0 - 1, "Debug")]>>
    /\ \E g \in Gens : activeGenerations["job-1"] = g /\ gen[g].timer = "armed"
    /\ terminals["job-1"] = 0

\* Every chunk ends with the newline of a line.
LineAligned(cs) == \A i \in 1..Len(cs) : cs[i][Len(cs[i])] = NL

\* C24: a record of a type other than progress, complete and error, arriving
\* whole, publishes nothing and the records that follow it are handled as
\* they would be without it; when nothing but such records arrived, the job
\* is active and its timer, its file and its process are untouched.
C24_UnknownTypeIgnored ==
    LET ls == worker.lines IN
    (/\ Drained /\ LineAligned(worker.chunks)
     /\ ls # <<>> /\ Head(ls) = Line("log"))
    => /\ published = ExpectedLog(Tail(ls))
       /\ (\A i \in 1..Len(ls) : ls[i] = Line("log"))
          => /\ activeGenerations = Accepted.active
             /\ gen = Accepted.gen
             /\ terminals = Accepted.terminals

C24_Witness ==
    /\ Drained
    /\ worker.chunks = <<Line("log") \o Line("progress10")>>
    /\ published = <<[sid |-> "job-1", ev |-> ProgressEvent(10, "Processing...")]>>
    /\ activeGenerations["job-1"] = Observed
    /\ gen[Observed].timer = "armed" /\ gen[Observed].file = "present"

\* C25: when the start of a job fails (writeFile rejects, spawn throws, or
\* the child emits 'error'), exactly one event, an error event, is published
\* for the job, the job is not in the active set, its timeout timer is not
\* armed and its scratch file, if it was written, is removed.
C25_FailedLaunchCleansUp ==
    [][\A g \in Gens : \A o \in Outcomes \ {"spawned"} :
          WriteFileSettled(g, o)
          => /\ Len(out') = 1
             /\ out'[1].sid = gen[g].sid /\ out'[1].ev.type = "error"
             /\ activeGenerations'[gen[g].sid] = NoGen
             /\ gen'[g].timer # "armed"
             /\ gen'[g].file # "present"]_vars

OperationOn(id) ==
    \/ GeneratePodcast(id)
    \/ CancelGeneration(id)
    \/ \E g \in Gens :
          /\ gen[g].sid = id
          /\ \/ \E o \in Outcomes : WriteFileSettled(g, o)
             \/ WorkerCallback(g)
             \/ GraceElapsed(g)

\* C27: an operation on one id leaves the active-set entry, the timers, the
\* scratch file and the process of every job of every other id as they
\* were, and publishes no event for another id.
C27_OtherJobsUntouched ==
    [][\A id \in Ids : \A other \in Ids \ {id} :
          OperationOn(id)
          => /\ activeGenerations'[other] = activeGenerations[other]
             /\ terminals'[other] = terminals[other]
             /\ \A h \in Gens : gen[h].sid = other => gen'[h] = gen[h]
             /\ \A i \in 1..Len(out') : out'[i].sid = id]_vars

C27_Witness ==
    /\ out = <<[sid |-> "job-1", ev |-> CancelledEvent]>>
    /\ activeGenerations["job-1"] = NoGen
    /\ terminals["job-2"] = 0
    /\ \E h \in Gens :
          /\ activeGenerations["job-2"] = h
          /\ gen[h].timer = "armed" /\ gen[h].file = "present" /\ ~gen[h].killed

\* ------------------------------------------------------------ ClaunchService
Has(K, id) == \E i \in 1..Len(K.keys) : K.keys[i] = id

Without(list, x) == SelectSeq(list, LAMBDA k : k # x)

emit(K, name, id) ==
    [K EXCEPT !.emitted = Append(@, [name |-> name, sid |-> id])]

FreeTimers(K) == {h \in Handles : K.timers[h] = ""}

setInterval(K) == CHOOSE h \in FreeTimers(K) : \A f \in FreeTimers(K) : h <= f

clearInterval(K, h) ==
    IF h = NoTimer THEN K ELSE [K EXCEPT !.timers[h] = ""]

updateActivity(K, id) ==
    IF Has(K, id)
    THEN [K EXCEPT !.sessions[id].lastActivity = K.now,
                   !.sessions[id].isActive = TRUE]
    ELSE K

startGlobalMonitor(K) ==
    IF K.monitorInterval # NoTimer THEN K
    ELSE LET h == setInterval(K) IN
         [K EXCEPT !.timers[h] = "monitor", !.monitorInterval = h]

stopGlobalMonitor(K) ==
    IF K.monitorInterval # NoTimer
    THEN [clearInterval(K, K.monitorInterval) EXCEPT !.monitorInterval = NoTimer]
    ELSE K

\* startMonitoring without the check for an existing record.
startMonitoring_NoHasCheck(K, id) ==
    IF ~K.config.enabled THEN K
    ELSE LET h == setInterval(K)
             K1 == [K EXCEPT !.timers[h] = id,
                             !.sessions[id] =
                                 [lastActivity |-> K.now, keepAliveTimer |-> h,
                                  isActive |-> TRUE, reconnectAttempts |-> 0],
                             !.keys = IF Has(K, id) THEN @ ELSE Append(@, id)]
         IN startGlobalMonitor(emit(K1, "session-monitoring-started", id))

startMonitoring(K, id) ==
    IF ~K.config.enabled THEN K
    ELSE IF Has(K, id)
    THEN updateActivity(emit(K, "debug: Already monitoring session", id), id)
    ELSE LET h == setInterval(K)
             K1 == [K EXCEPT !.timers[h] = id,
                             !.sessions[id] =
                                 [lastActivity |-> K.now, keepAliveTimer |-> h,
                                  isActive |-> TRUE, reconnectAttempts |-> 0],
                             !.keys = Append(@, id)]
         IN startGlobalMonitor(emit(K1, "session-monitoring-started", id))

\* stopMonitoring that never stops the global monitor.
stopMonitoring_LeavesMonitor(K, id) ==
    IF ~Has(K, id) THEN K
    ELSE LET K1 == clearInterval(K, K.sessions[id].keepAliveTimer)
         IN emit([K1 EXCEPT !.sessions[id] = NoActivity,
                            !.keys = Without(@, id)],
                 "session-monitoring-stopped", id)

\* stopMonitoring that deletes the record and leaves its interval set.
stopMonitoring_KeepsTimer(K, id) ==
    IF ~Has(K, id) THEN K
    ELSE LET K2 == emit([K EXCEPT !.sessions[id] = NoActivity,
                                  !.keys = Without(@, id)],
                        "session-monitoring-stopped", id)
         IN IF K2.keys = <<>> THEN stopGlobalMonitor(K2) ELSE K2

stopMonitoring(K, id) ==
    IF ~Has(K, id) THEN K
    ELSE LET K1 == clearInterval(K, K.sessions[id].keepAliveTimer)
             K2 == emit([K1 EXCEPT !.sessions[id] = NoActivity,
                                   !.keys = Without(@, id)],
                        "session-monitoring-stopped", id)
         IN IF K2.keys = <<>> THEN stopGlobalMonitor(K2) ELSE K2

\* The emit of the reconnect event does not throw here, so the catch of
\* attemptReconnect is never entered.
attemptReconnect(K, id) ==
    IF ~Has(K, id) THEN K
    ELSE LET K1 == emit([K EXCEPT !.sessions[id].reconnectAttempts = @ + 1],
                        "session-reconnect-attempt", id)
         IN emit([K1 EXCEPT !.sessions[id].lastActivity = K.now,
                            !.sessions[id].isActive = TRUE],
                 "session-reconnected", id)

inactiveTooLong(K, id) ==
    K.now - K.sessions[id].lastActivity > K.config.inactivityTimeoutMs

\* sendKeepAlive that reconnects whatever the number of attempts made.
sendKeepAlive_NoAttemptLimit(K, id) ==
    IF ~Has(K, id) \/ ~K.sessions[id].isActive THEN K
    ELSE IF inactiveTooLong(K, id)
    THEN LET K1 == emit([K EXCEPT !.sessions[id].isActive = FALSE],
                        "session-stale", id)
         IN IF K.config.autoReconnect
            THEN attemptReconnect(K1, id)
            ELSE stopMonitoring(K1, id)
    ELSE IF K.processManager THEN emit(K, "keep-alive-sent", id)
    ELSE K

\* attemptReconnect has no await in it, so the await of it in sendKeepAlive
\* resumes with nothing left to do: the callback is one step.
sendKeepAlive(K, id) ==
    IF ~Has(K, id) \/ ~K.sessions[id].isActive THEN K
    ELSE IF inactiveTooLong(K, id)
    THEN LET K1 == emit([K EXCEPT !.sessions[id].isActive = FALSE],
                        "session-stale", id)
         IN IF /\ K.config.autoReconnect
               /\ K.sessions[id].reconnectAttempts < K.config.maxReconnectAttempts
            THEN attemptReconnect(K1, id)
            ELSE stopMonitoring(K1, id)
    ELSE IF K.processManager THEN emit(K, "keep-alive-sent", id)
    ELSE K

RECURSIVE checkSessions(_, _)
checkSessions(K, ks) ==
    IF ks = <<>> THEN K
    ELSE LET id == Head(ks)
             K1 == IF inactiveTooLong(K, id) /\ K.sessions[id].isActive
                   THEN emit([K EXCEPT !.sessions[id].isActive = FALSE],
                             "session-stale", id)
                   ELSE K
         IN checkSessions(K1, Tail(ks))

checkAllSessions(K) == checkSessions(K, K.keys)

\* A patch names the fields it carries; the calls explored carry one field.
Patches ==
    {[field |-> "enabled", value |-> v] : v \in BOOLEAN}
    \cup {[field |-> "intervalMs", value |-> v] : v \in Intervals}
    \cup {[field |-> "inactivityTimeoutMs", value |-> v] : v \in 0..(MaxNow - 1)}
    \cup {[field |-> "autoReconnect", value |-> v] : v \in BOOLEAN}
    \cup {[field |-> "maxReconnectAttempts", value |-> v] : v \in 0..MaxAttempts}

RECURSIVE restartTimers(_, _)
restartTimers(K, ks) ==
    IF ks = <<>> THEN K
    ELSE LET id == Head(ks)
             K1 == clearInterval(K, K.sessions[id].keepAliveTimer)
             h == setInterval(K1)
             K2 == IF K.sessions[id].keepAliveTimer # NoTimer
                   THEN [K1 EXCEPT !.timers[h] = id,
                                   !.sessions[id].keepAliveTimer = h]
                   ELSE K
         IN restartTimers(K2, Tail(ks))

updateConfig(K, patch) ==
    LET K1 == [K EXCEPT !.config[patch.field] = patch.value] IN
    IF patch.field = "intervalMs" THEN restartTimers(K1, K1.keys) ELSE K1

\* The iterator of Map.keys() still reaches every key when the key just
\* visited is deleted.
RECURSIVE stopAll(_, _)
stopAll(K, ks) ==
    IF ks = <<>> THEN K ELSE stopAll(stopMonitoring(K, Head(ks)), Tail(ks))

destroy(K) == stopGlobalMonitor(stopAll(K, K.keys))

\* --- the calls and the callbacks of the service, one step each
ClaunchIdle ==
    UNCHANGED <<activeGenerations, gen, terminals, out, ret, worker, published,
                sink, hooks, voice>>

Quiet == [claunch EXCEPT !.emitted = <<>>]

\* new ClaunchService(config), for any config; the other services as
\* constructed.
ClaunchInit ==
    /\ activeGenerations = [id \in Ids |-> NoGen]
    /\ gen = [g \in Gens |-> IdleGen]
    /\ terminals = [id \in Ids |-> 0]
    /\ out = <<>>
    /\ ret = "void"
    /\ worker = NoWorker
    /\ published = <<>>
    /\ sink = NoSink
    /\ hooks = NoHooks
    /\ voice = NoVoice
    /\ \E config \in Configs : claunch = ClaunchService(config)

StartMonitoring(id) ==
    /\ FreeTimers(claunch) # {}
    /\ claunch' = startMonitoring(Quiet, id)
    /\ ClaunchIdle

StopMonitoring(id) ==
    /\ claunch' = stopMonitoring(Quiet, id)
    /\ ClaunchIdle

UpdateActivity(id) ==
    /\ claunch' = updateActivity(Quiet, id)
    /\ ClaunchIdle

UpdateConfig(patch) ==
    /\ claunch' = updateConfig(Quiet, patch)
    /\ ClaunchIdle

SetProcessManager ==
    /\ claunch' = [Quiet EXCEPT !.processManager = TRUE]
    /\ ClaunchIdle

Destroy ==
    /\ claunch' = destroy(Quiet)
    /\ ClaunchIdle

\* The callback of a keep-alive interval that is set.
KeepAliveFires(h) ==
    /\ claunch.timers[h] \in SessionIds
    /\ claunch' = sendKeepAlive(Quiet, claunch.timers[h])
    /\ ClaunchIdle

\* The callback of the global monitor interval.
MonitorFires(h) ==
    /\ claunch.timers[h] = "monitor"
    /\ claunch' = checkAllSessions(Quiet)
    /\ ClaunchIdle

ClockTicks ==
    /\ claunch.now < MaxNow
    /\ claunch' = [Quiet EXCEPT !.now = @ + 1]
    /\ ClaunchIdle

ClaunchNext ==
    \/ \E id \in SessionIds : StartMonitoring(id)
    \/ \E id \in SessionIds : StopMonitoring(id)
    \/ \E id \in SessionIds : UpdateActivity(id)
    \/ \E patch \in Patches : UpdateConfig(patch)
    \/ SetProcessManager
    \/ Destroy
    \/ \E h \in Handles : KeepAliveFires(h)
    \/ \E h \in Handles : MonitorFires(h)
    \/ ClockTicks

ClaunchSpec == ClaunchInit /\ [][ClaunchNext]_vars

\* The intervals set for the keep-alive of id.
KeepAliveTimers(id) == {h \in Handles : claunch.timers[h] = id}

Monitored(id) == Has(claunch, id)

\* C28: whatever was called, an id has at most one record and at most one
\* keep-alive interval set, the one its record holds, and none without a
\* record; startMonitoring of a monitored id adds no key and sets no interval,
\* leaves every other field of every record alone, and (the service being
\* enabled) stamps the record with the present time and marks it active.
C28_NoDuplicateMonitoring ==
    /\ [](\A id \in SessionIds :
            /\ Len(SelectSeq(claunch.keys, LAMBDA k : k = id)) <= 1
            /\ Cardinality(KeepAliveTimers(id)) <= 1
            /\ Monitored(id)
               => KeepAliveTimers(id) = {claunch.sessions[id].keepAliveTimer}
            /\ ~Monitored(id) => KeepAliveTimers(id) = {})
    /\ [][\A id \in SessionIds :
            StartMonitoring(id) /\ Monitored(id)
            => /\ claunch'.keys = claunch.keys
               /\ claunch'.timers = claunch.timers
               /\ claunch'.monitorInterval = claunch.monitorInterval
               /\ \A other \in SessionIds \ {id} :
                     claunch'.sessions[other] = claunch.sessions[other]
               /\ claunch'.sessions[id].keepAliveTimer
                     = claunch.sessions[id].keepAliveTimer
               /\ claunch'.sessions[id].reconnectAttempts
                     = claunch.sessions[id].reconnectAttempts
               /\ IF claunch.config.enabled
                  THEN /\ claunch'.sessions[id].lastActivity = claunch.now
                       /\ claunch'.sessions[id].isActive
                  ELSE claunch'.sessions[id] = claunch.sessions[id]]_vars

C28_Witness ==
    /\ claunch.emitted
         = <<[name |-> "debug: Already monitoring session", sid |-> "session-1"]>>
    /\ claunch.now > 0
    /\ claunch.sessions["session-1"].lastActivity = claunch.now
    /\ Cardinality(KeepAliveTimers("session-1")) = 1
    /\ Monitored("session-2")

\* C29: destroy leaves no key in the Map, no interval set (neither a
\* keep-alive nor the monitor) and no monitor handle; a callback runs only
\* for an interval that is set, so none can run in the state destroy leaves.
C29_DestroyStopsEverything ==
    [][Destroy
       => /\ claunch'.keys = <<>>
          /\ \A h \in Handles : claunch'.timers[h] = ""
          /\ claunch'.monitorInterval = NoTimer
          /\ \A id \in SessionIds : claunch'.sessions[id] = NoActivity]_vars

C29_Witness ==
    /\ claunch.emitted
         = <<[name |-> "session-monitoring-stopped", sid |-> "session-1"],
             [name |-> "session-monitoring-stopped", sid |-> "session-2"]>>
    /\ claunch.keys = <<>>
    /\ FreeTimers(claunch) = Handles

\* ---------------------------------------------------------- VoiceHookManager
\* One hook type and one execute call on it (src/unnamed/part_007).  A
\* registered handler is known by its index in the array; its config says
\* whether it is enabled, whether it is async, and whether its validators
\* (if any) accept the context.  A handler that was called and has not
\* settled is running.  execute is suspended only at the await of
\* executeSync, so the loop runs from one such await to the next in one step.
HookConfigs == [enabled : BOOLEAN, async : BOOLEAN, valid : BOOLEAN]

call(H, i) ==
    [H EXCEPT !.running = @ \cup {i}, !.started = Append(@, i)]

\* The for loop of execute from handler i on, up to the next await or the
\* return.
RECURSIVE loop(_, _)
loop(H, i) ==
    IF i > Len(H.handlers)
    THEN [H EXCEPT !.phase = "returned", !.pos = i, !.awaiting = 0,
                   !.result = "resolved"]
    ELSE LET config == H.handlers[i] IN
         IF ~config.enabled \/ ~config.valid THEN loop(H, i + 1)
         ELSE IF config.async THEN loop(call(H, i), i + 1)
         ELSE [call(H, i) EXCEPT !.pos = i, !.awaiting = i]

execute(H) == loop([H EXCEPT !.phase = "executing"], 1)

\* The promise of handler i settles.  The race awaited for it (if it is
\* still awaited) settles with it, and resolved or rejected, caught or not,
\* the loop goes on to the next handler.
settled(H, i) ==
    LET H1 == [H EXCEPT !.running = @ \ {i}] IN
    IF H.awaiting = i THEN loop([H1 EXCEPT !.awaiting = 0], i + 1) ELSE H1

\* The timer of executeSync for handler i fires before the handler has
\* settled: the race rejects with 'Hook timeout', the catch around
\* executeSync takes the error, and the loop goes on.
timedOut(H, i) == loop([H EXCEPT !.awaiting = 0], i + 1)

HooksIdle ==
    UNCHANGED <<activeGenerations, gen, terminals, out, ret, worker, published,
                sink, claunch, voice>>

Register(config) ==
    /\ hooks.phase = "registering"
    /\ Len(hooks.handlers) < MaxHandlers
    /\ hooks' = [hooks EXCEPT !.handlers = Append(@, config)]
    /\ HooksIdle

Execute ==
    /\ hooks.phase = "registering"
    /\ hooks' = execute(hooks)
    /\ HooksIdle

HandlerSettles(i) ==
    /\ i \in hooks.running
    /\ hooks' = settled(hooks, i)
    /\ HooksIdle

HookTimeout(i) ==
    /\ hooks.awaiting = i
    /\ i \in hooks.running
    /\ hooks' = timedOut(hooks, i)
    /\ HooksIdle

HooksNext ==
    \/ \E config \in HookConfigs : Register(config)
    \/ Execute
    \/ \E i \in 1..MaxHandlers : HandlerSettles(i)
    \/ \E i \in 1..MaxHandlers : HookTimeout(i)

HooksSpec == Init /\ [][HooksNext]_vars

\* The non-async handlers among a sequence of indexes.
NonAsync(is) == SelectSeq(is, LAMBDA i : ~hooks.handlers[i].async)

\* C30: at no time are two non-async handlers of the call running, and the
\* non-async handlers are called in the order of their registration.
C30_OneAtATimeInOrder ==
    /\ Cardinality({i \in hooks.running : ~hooks.handlers[i].async}) <= 1
    /\ \A m, n \in 1..Len(NonAsync(hooks.started)) :
          m < n => NonAsync(hooks.started)[m] < NonAsync(hooks.started)[n]
    /\ \A m \in 1..Len(hooks.started) : hooks.handlers[hooks.started[m]].enabled

\* C31: when the timer of executeSync fires for a handler that has not
\* settled, the execute call ends there, rejected.
C31_TimeoutRejects ==
    [][\A i \in 1..MaxHandlers :
          HookTimeout(i)
          => hooks'.phase = "returned" /\ hooks'.result = "rejected"]_vars

\* C32: a progress record that carries a percent p is published as one
\* progress event whose progress is p, for p = 0 as for any other.
C32_PercentCarried ==
    [][\A g \in Gens : \A b \in ProgressBodies :
          ProgressData(g, b) /\ Decode(b).percent # <<>>
          => /\ Len(out') = 1
             /\ out'[1].ev.subtype = "progress"
             /\ out'[1].ev.progress = Decode(b).percent]_vars

\* C33: when the start of a job fails at writeFile or at spawn while another
\* job of the same id is in the active set, that job keeps its entry, its
\* timeout timer and its scratch file as they were.
C33_FailedStartSparesActive ==
    [][\A g \in Gens : \A o \in {"writeFailed", "spawnThrew"} :
          LET h == activeGenerations[gen[g].sid] IN
          WriteFileSettled(g, o) /\ h # NoGen
          => /\ activeGenerations'[gen[g].sid] = h
             /\ gen'[h].timer = gen[h].timer
             /\ gen'[h].file = gen[h].file]_vars

\* ------------------------------------------- sessions left to go stale
\* ClaunchService with autoReconnect off and no caller but the one that
\* starts the monitoring of an id not yet monitored: no updateActivity, no
\* stopMonitoring, no updateConfig.  An interval that is set keeps calling
\* its callback, and the clock goes on, so each of them is taken whenever it
\* stays able to change something.
StartFresh(id) ==
    /\ ~Has(claunch, id)
    /\ StartMonitoring(id)

StaleInit ==
    /\ ClaunchInit
    /\ ~claunch.config.autoReconnect

StaleNext ==
    \/ \E id \in SessionIds : StartFresh(id)
    \/ \E h \in Handles : KeepAliveFires(h)
    \/ \E h \in Handles : MonitorFires(h)
    \/ ClockTicks

StaleSpec ==
    /\ StaleInit
    /\ [][StaleNext]_vars
    /\ \A h \in Handles : WF_vars(KeepAliveFires(h))
    /\ \A h \in Handles : WF_vars(MonitorFires(h))
    /\ WF_vars(ClockTicks)

\* C34: autoReconnect being off, a monitored session that has been inactive
\* for longer than inactivityTimeoutMs is eventually not monitored any more.
C34_StaleEventuallyRemoved ==
    \A id \in SessionIds :
       (Monitored(id) /\ inactiveTooLong(claunch, id)) ~> ~Monitored(id)

\* C35: the global monitor interval is set exactly when the Map of sessions
\* is not empty, and it is the one interval whose callback is the monitor's.
C35_MonitorIffSessions ==
    /\ (claunch.monitorInterval # NoTimer) <=> (claunch.keys # <<>>)
    /\ {h \in Handles : claunch.timers[h] = "monitor"}
         = {claunch.monitorInterval} \ {NoTimer}

\* The last of two sessions was stopped by its own keep-alive callback.
C35_Witness ==
    /\ claunch.keys = <<>>
    /\ claunch.monitorInterval = NoTimer
    /\ claunch.emitted
         = <<[name |-> "session-stale", sid |-> "session-2"],
             [name |-> "session-monitoring-stopped", sid |-> "session-2"]>>
    /\ claunch.now = MaxNow

\* ------------------------------------- reconnecting, the config unchanged
\* ClaunchService constructed with autoReconnect on and never reconfigured.
ReconnectInit ==
    /\ ClaunchInit
    /\ claunch.config.autoReconnect

ReconnectNext ==
    \/ \E id \in SessionIds : StartMonitoring(id)
    \/ \E id \in SessionIds : StopMonitoring(id)
    \/ \E id \in SessionIds : UpdateActivity(id)
    \/ SetProcessManager
    \/ Destroy
    \/ \E h \in Handles : KeepAliveFires(h)
    \/ \E h \in Handles : MonitorFires(h)
    \/ ClockTicks

ReconnectSpec == ReconnectInit /\ [][ReconnectNext]_vars

\* The keep-alive callback of handle h finds its session inactive too long.
DetectsStale(h) ==
    LET id == claunch.timers[h] IN
    /\ KeepAliveFires(h)
    /\ Has(claunch, id)
    /\ claunch.sessions[id].isActive
    /\ inactiveTooLong(claunch, id)

Emitted(K, name) == \E i \in 1..Len(K.emitted) : K.emitted[i].name = name

\* C36: autoReconnect being on and the config as constructed, no session has
\* more reconnect attempts than maxReconnectAttempts, and a staleness that
\* the keep-alive callback detects for a session with maxReconnectAttempts
\* attempts stops its monitoring and attempts no reconnect.
C36_ReconnectAttemptsBounded ==
    /\ [](\A id \in SessionIds :
            claunch.sessions[id].reconnectAttempts
               <= claunch.config.maxReconnectAttempts)
    /\ [][\A h \in Handles :
            LET id == claunch.timers[h] IN
            /\ DetectsStale(h)
            /\ claunch.sessions[id].reconnectAttempts
                  = claunch.config.maxReconnectAttempts
            => /\ ~Has(claunch', id)
               /\ claunch'.timers[h] = ""
               /\ ~Emitted(claunch', "session-reconnect-attempt")]_vars

\* A session that was reconnected as often as allowed has just been stopped
\* by its keep-alive callback.
C36_Witness ==
    /\ claunch.config.autoReconnect
    /\ claunch.config.maxReconnectAttempts = MaxAttempts
    /\ claunch.emitted
         = <<[name |-> "session-stale", sid |-> "session-1"],
             [name |-> "session-monitoring-stopped", sid |-> "session-1"]>>

\* ---------------------------------------------------------- VoiceModeService
\* A child is "alive" from its spawn to its 'close'; "nospawn" is a child
\* whose spawn failed (the ChildProcess object exists, has no handle, and
\* its 'error' and 'close' are still to come).  stops and restarts count the
\* once('close') listeners that stop() calls, made directly or by restart(),
\* have put on the child.  starting counts the start() calls inside their
\* one-second wait, killTimers the five-second timers of stop() not yet
\* fired.  A spawn that throws leaves every field as it was (isRunning is
\* false when start() gets that far) and is not explored.
SpawnResults == {"alive", "nospawn"}

\* ChildProcess.kill: a child with a handle is signalled and marked killed.
processKill(V, p, signal) ==
    IF V.procs[p].state = "alive"
    THEN [V EXCEPT !.procs[p].killed = TRUE, !.procs[p].signals = @ \cup {signal}]
    ELSE V

\* start(), from its call to its await.
start(V, result) ==
    IF V.isRunning THEN V
    ELSE LET free == {p \in Procs : V.procs[p].state = "unused"}
             p == CHOOSE x \in free : \A y \in free : x <= y
         IN [V EXCEPT !.procs[p].state = result, !.process = p,
                      !.starting = @ + 1]

\* start(), after the wait.
started(V) ==
    LET V1 == [V EXCEPT !.starting = @ - 1] IN
    IF V.process # NoProc /\ ~V.procs[V.process].killed
    THEN [V1 EXCEPT !.isRunning = TRUE]
    ELSE V1

\* stop(), up to the return of its promise; listener names the field that
\* counts the listener put on the child.
stop(V, listener) ==
    IF ~V.isRunning \/ V.process = NoProc THEN V
    ELSE processKill([V EXCEPT !.procs[V.process][listener] = @ + 1,
                        !.killTimers = @ + 1],
              V.process, "SIGTERM")

\* restart(): start() follows at once when stop() had nothing to stop, and
\* otherwise when the promise of stop() resolves.
restart(V, result) ==
    IF ~V.isRunning \/ V.process = NoProc THEN start(V, result)
    ELSE stop(V, "restarts")

\* The callback of the timer that stop() sets.
forceKill5s(V) ==
    LET V1 == [V EXCEPT !.killTimers = @ - 1] IN
    IF V.process # NoProc /\ ~V.procs[V.process].killed
    THEN processKill(V1, V.process, "SIGKILL")
    ELSE V1

\* 'close' of child p (after its 'error', for a spawn that failed): the
\* listener of start() and those of stop() clear the flag and resolve the
\* promises, and a restart() that waited goes on to start().
closed(V, p, result) ==
    LET V1 == [V EXCEPT !.procs[p].state = "exited", !.procs[p].stops = 0,
                        !.procs[p].restarts = 0, !.isRunning = FALSE]
    IN IF V.procs[p].restarts > 0 THEN start(V1, result) ELSE V1

VoiceIdle ==
    UNCHANGED <<activeGenerations, gen, terminals, out, ret, worker, published,
                sink, claunch, hooks>>

VoiceStart(result) ==
    /\ voice.isRunning \/ voice.calls < MaxCalls
    /\ voice' = [start(voice, result) EXCEPT
                    !.calls = IF voice.isRunning THEN @ ELSE @ + 1]
    /\ VoiceIdle

\* The 'error' and 'close' of a spawn that failed are emitted within the
\* tick, so they have been handled when a one-second timer fires.
StartupWaitElapsed ==
    /\ voice.starting > 0
    /\ \A p \in Procs : voice.procs[p].state # "nospawn"
    /\ voice' = started(voice)
    /\ VoiceIdle

VoiceStop ==
    /\ voice.killTimers < MaxCalls
    /\ voice.process # NoProc => voice.procs[voice.process].stops < MaxCalls
    /\ voice' = stop(voice, "stops")
    /\ VoiceIdle

VoiceRestart(result) ==
    /\ voice.calls < MaxCalls
    /\ voice.killTimers < MaxCalls
    /\ voice.process # NoProc => voice.procs[voice.process].restarts = 0
    /\ voice' = [restart(voice, result) EXCEPT !.calls = @ + 1]
    /\ VoiceIdle

ForceKillElapsed ==
    /\ voice.killTimers > 0
    /\ voice' = forceKill5s(voice)
    /\ VoiceIdle

ChildCloses(p, result) ==
    /\ voice.procs[p].state \in SpawnResults
    /\ voice' = closed(voice, p, result)
    /\ VoiceIdle

VoiceNext ==
    \/ \E result \in SpawnResults : VoiceStart(result)
    \/ StartupWaitElapsed
    \/ VoiceStop
    \/ \E result \in SpawnResults : VoiceRestart(result)
    \/ ForceKillElapsed
    \/ \E p \in Procs, result \in SpawnResults : ChildCloses(p, result)

VoiceSpec == Init /\ [][VoiceNext]_vars

\* C37: at most one child process of the service is alive.
C37_OneChildAlive ==
    Cardinality({p \in Procs : voice.procs[p].state = "alive"}) <= 1

\* C38: the service reports running only while the child in its process
\* field is alive.
C38_RunningOnlyWhileAlive ==
    voice.isRunning
    => voice.process # NoProc /\ voice.procs[voice.process].state = "alive"

\* C39: when the timer that stop() set fires and the child that stop()
\* signalled with SIGTERM has not terminated, the child is sent SIGKILL.
C39_StopEscalates ==
    [][\A p \in Procs :
          /\ ForceKillElapsed
          /\ voice.procs[p].state = "alive"
          /\ voice.procs[p].stops > 0
          /\ "SIGTERM" \in voice.procs[p].signals
          => "SIGKILL" \in voice'.procs[p].signals]_vars

====
